---- MODULE Spec2Model ----
(***************************************************************************)
(* Model of the text-to-label classification pipeline of the employee      *)
(* survey dashboard: label derivation (load_real_data_for_analysis),       *)
(* ensemble training (train_ensemble_models, both the dashboard page's and *)
(* the standalone application's version), the analysis session of          *)
(* show_text_analysis_ml_page (train button, prediction tab), feature      *)
(* assembly, text feature extraction, the ensemble vote and confidence,    *)
(* the feature-importance ranking and its word filter, japanese_tokenizer, *)
(* the cleaning of comments (preprocess_japanese_text), the columns the    *)
(* page reads, the training artifacts of a session, and the dashboard's    *)
(* parse_japanese_datetime.                                                *)
(*                                                                         *)
(* Row positions are 0-based, as in pandas/numpy; a sequence holds row p   *)
(* at index p + 1.                                                         *)
(***************************************************************************)
EXTENDS Integers, Sequences, FiniteSets, TLC

VARIABLES
    pandasNaLast,   \* library build: Series.argsort orders NA last (pandas >= 3) or marks it -1
    raw,            \* the spreadsheet handed to load_real_data_for_analysis
    loaded,         \* what load_real_data_for_analysis returned
    trainIn,        \* arguments of one call of train_ensemble_models
    trainOut,       \* outcome of that call
    df,             \* the data frame the page of a session works on
    session_state,  \* st.session_state: a function from the keys present to their values
    display,        \* what the prediction tab rendered last
    args,           \* arguments of one call of a function of the pipeline
    result          \* what that call returned

vars == <<pandasNaLast, raw, loaded, trainIn, trainOut, df, session_state, display, args, result>>

loaderVars == <<pandasNaLast, raw, loaded>>
trainerVars == <<trainIn, trainOut>>
sessionVars == <<df, session_state, display>>
callVars == <<args, result>>

----------------------------------------------------------------------------
(* Bounds of the model *)

MaxRows == 8          \* rows of a spreadsheet given to the loader
MaxTrainRows == 6     \* rows of a feature matrix given to train_ensemble_models
MaxSessionRows == 5   \* rows of the data frame of a session
MaxAssembleRows == 5  \* rows of the data frame of one feature assembly
MaxExtractRows == 4   \* comments given to preprocess_text_features
ProbSteps == 10       \* a class probability is a multiple of 1/ProbSteps
MaxImportance == 2    \* largest feature importance drawn, in units of 0.001
MaxTopN == 3          \* largest top_n given to visualize_feature_importance
MaxTextLen == 3       \* characters of a text given to japanese_tokenizer
MaxColumnRows == 3    \* rows of a spreadsheet whose columns are drawn
MaxWordLen == 3       \* characters of a word given to filter_meaningful_words

(* Program constants *)

SampleSize == 200     \* create_sample_data_for_ml(200)
TableTop == 15        \* meaningful_features_data[:15]

----------------------------------------------------------------------------
(* Generic helpers *)

Range(s) == {s[i] : i \in 1..Len(s)}

SeqsUpTo(S, n) == UNION {[1..k -> S] : k \in 0..n}

----------------------------------------------------------------------------
(* Cells of a numeric survey column.  A raw spreadsheet cell is either a    *)
(* number or text; pd.to_numeric(errors='coerce') keeps the number and      *)
(* turns text into NaN.                                                     *)

NaN == [na |-> TRUE, v |-> 0]

Num(x) == [na |-> FALSE, v |-> x]

ScoreValues == {1, 2}

RawCells == {[numeric |-> TRUE, v |-> x] : x \in ScoreValues} \cup {[numeric |-> FALSE, v |-> 0]}

to_numeric(cell) == IF cell.numeric THEN Num(cell.v) ELSE NaN

----------------------------------------------------------------------------
(* numpy.argsort of a sequence of integers: the 0-based positions in        *)
(* ascending order of value.  The default kind ('quicksort') is not a       *)
(* stable sort: the order of equal values is whatever the partitioning of   *)
(* the build leaves.  The model draws it from two outcomes: with tie = 0    *)
(* equal values stay in position order, with tie = 1 the last position      *)
(* comes first among its equals.                                            *)

TieRank(n, tie, p) == (p + tie) % n

\* the ties a sort of n values can leave
TieBreaks(n) == IF n > 1 THEN {0, 1} ELSE {0}

\* whether position q is placed before position p
SortsBefore(q, p, vals, tie) ==
    \/ vals[q + 1] < vals[p + 1]
    \/ vals[q + 1] = vals[p + 1] /\ TieRank(Len(vals), tie, q) < TieRank(Len(vals), tie, p)

\* the position placed k-th is the one that k - 1 positions are placed before
np_argsort(vals, tie) ==
    [k \in 1..Len(vals) |->
        CHOOSE p \in 0..(Len(vals) - 1) :
            Cardinality({q \in 0..(Len(vals) - 1) : SortsBefore(q, p, vals, tie)}) = k - 1]

\* the 1-based indices of the cells that are not NaN, in row order
NotNaIndices(s) ==
    LET F[k \in 0..Len(s)] ==
            IF k = 0 THEN <<>>
            ELSE IF s[k].na THEN F[k - 1] ELSE Append(F[k - 1], k)
    IN F[Len(s)]

\* how many of the first i cells are not NaN
NotNaCount(s, i) == Cardinality({j \in 1..i : ~s[j].na})

(* pandas Series.argsort.  Without NaN it is numpy's argsort.  With NaN,    *)
(* pandas before 3.0 sorts the non-NaN values alone, writes the resulting   *)
(* positions (positions within the NaN-free array) into the non-NaN slots   *)
(* and -1 into the NaN slots; pandas 3.0 orders the NaN rows last.          *)
ScatterNotNa(s, a) ==
    [i \in 1..Len(s) |-> IF s[i].na THEN 0 - 1 ELSE a[NotNaCount(s, i)]]

CompactValues(s, nn) == [k \in 1..Len(nn) |-> s[nn[k]].v]

SeriesArgsortMinusOne(s, tie) ==
    ScatterNotNa(s, np_argsort(CompactValues(s, NotNaIndices(s)), tie))

\* a sort key above every value of the column, for the rows ordered last
NaLastKey(s) ==
    LET F[k \in 0..Len(s)] ==
            IF k = 0 THEN 0
            ELSE IF ~s[k].na /\ s[k].v > F[k - 1] THEN s[k].v ELSE F[k - 1]
    IN F[Len(s)] + 1

SeriesArgsortNaLast(s, tie) ==
    np_argsort([i \in 1..Len(s) |-> IF s[i].na THEN NaLastKey(s) ELSE s[i].v], tie)

SeriesArgsort(s, naLast, tie) ==
    IF \A i \in 1..Len(s) : ~s[i].na
    THEN np_argsort([i \in 1..Len(s) |-> s[i].v], tie)
    ELSE IF naLast THEN SeriesArgsortNaLast(s, tie) ELSE SeriesArgsortMinusOne(s, tie)

----------------------------------------------------------------------------
(* load_real_data_for_analysis *)

\* mutants of LowCount: rounding to nearest, rounding up
LowCountRounded(n_samples) == (n_samples * 2 + 5) \div 10

LowCountCeiling(n_samples) == (n_samples * 2 + 9) \div 10

\* int(n_samples * 0.2)
LowCount(n_samples) == (n_samples * 2) \div 10

\* create_sample_data_for_ml(n): int(n * 0.2) rows labelled 1, then the rest
\* labelled 0.  The random scores and comments of the rows are not modelled.
create_sample_data_for_ml(n) ==
    [n |-> n,
     hasSat |-> TRUE,
     sat |-> <<>>,
     labels |-> [i \in 1..n |-> IF i <= LowCount(n) THEN 1 ELSE 0]]

\* lines 559-577: the label column of a frame with n rows
\* result.ok = FALSE: df.loc[...] = 1 raised KeyError (a label -1 is not in the index)
\* df['is_low_satisfaction'] = 0; df.loc[low_satisfaction_indices, ...] = 1
MarkLowSatisfaction(n_samples, low_satisfaction_indices) ==
    IF \E k \in 1..Len(low_satisfaction_indices) : low_satisfaction_indices[k] < 0
    THEN [ok |-> FALSE, labels |-> <<>>]
    ELSE [ok |-> TRUE,
          labels |-> [i \in 1..n_samples |->
                         IF \E k \in 1..Len(low_satisfaction_indices) :
                                low_satisfaction_indices[k] = i - 1
                         THEN 1 ELSE 0]]

LabelLowSatisfaction(n, hasSat, sat, naLast, tie) ==
    IF ~hasSat
    THEN [ok |-> TRUE, labels |-> [i \in 1..n |-> 0]]
    ELSE MarkLowSatisfaction(Len(sat),
                             SubSeq(SeriesArgsort(sat, naLast, tie), 1, LowCount(Len(sat))))

NotLoaded ==
    [done |-> FALSE, is_real |-> FALSE, n |-> 0, hasSat |-> FALSE, sat |-> <<>>,
     labels |-> <<>>, errors |-> {}]

SampleResult(err) ==
    LET d == create_sample_data_for_ml(SampleSize)
    IN [done |-> TRUE, is_real |-> FALSE, n |-> d.n, hasSat |-> d.hasSat, sat |-> d.sat,
        labels |-> d.labels, errors |-> {err}]

\* the whole function: (df, is_real) plus the messages shown with st.error
load_real_data_for_analysis(table, naLast, tie) ==
    IF ~table.exists
    THEN SampleResult("file_not_found")
    ELSE LET sat == [i \in 1..Len(table.sat) |-> to_numeric(table.sat[i])]
             lab == LabelLowSatisfaction(table.n, table.hasSat, sat, naLast, tie)
         IN IF ~lab.ok
            THEN SampleResult("load_error")
            ELSE [done |-> TRUE, is_real |-> TRUE, n |-> table.n, hasSat |-> table.hasSat,
                  sat |-> sat, labels |-> lab.labels, errors |-> {}]

\* the spreadsheets: absent, without a satisfaction column, or with one
RawTables ==
    {[exists |-> FALSE, n |-> 0, hasSat |-> FALSE, sat |-> <<>>]}
    \cup {[exists |-> TRUE, n |-> k, hasSat |-> FALSE, sat |-> <<>>] : k \in 0..MaxRows}
    \cup {[exists |-> TRUE, n |-> Len(s), hasSat |-> TRUE, sat |-> s] : s \in SeqsUpTo(RawCells, MaxRows)}

----------------------------------------------------------------------------
(* train_ensemble_models *)

\* the models dictionary, in insertion order
ModelNames == <<"Decision Tree", "Random Forest", "Gradient Boosting">>

ModelSet == Range(ModelNames)

\* where a model's try block can be left by an exception raised for reasons
\* outside the labels (resources, degenerate features): "none" is no exception,
\* "score" is model.score(X_test, y_test), "train_score" model.score(X_train, y_train)
Stages == {"none", "fit", "cv", "score", "train_score"}

Classes == {0, 1}

RowsOf(y) == {i - 1 : i \in 1..Len(y)}

ClassCount(y, rows, c) == Cardinality({r \in rows : y[r + 1] = c})

ClassesPresent(y, rows) == {c \in Classes : ClassCount(y, rows, c) > 0}

\* ceil(0.3 * n): the test rows of train_test_split(test_size=0.3)
TestSize(n) == (3 * n + 9) \div 10

\* sklearn's allocation of n_draws rows to the classes in proportion to their
\* counts (count[c] rows of class c, n in all): the floors of the exact shares,
\* the rest to the largest remainders
Allocations(count, n, n_draws) ==
    LET present == {c \in Classes : count[c] > 0}
        share == [c \in Classes |-> (count[c] * n_draws) \div n]
        rem == [c \in Classes |-> (count[c] * n_draws) % n]
        need == n_draws - (share[0] + share[1])
    IN {[c \in Classes |-> share[c] + (IF c \in A THEN 1 ELSE 0)] :
            A \in {B \in SUBSET present :
                      /\ Cardinality(B) = need
                      /\ \A a \in B, b \in present \ B : rem[a] >= rem[b]}}

\* the splits whose test rows number n_test
ShuffleSplits(rows, n_test) ==
    {[train |-> rows \ T, test |-> T] :
        T \in {S \in SUBSET rows : Cardinality(S) = n_test}}

\* the splits that leave trainCount[c] rows of each class c for training
StratifiedSplits(y, rows, count, trainCounts) ==
    {[train |-> rows \ T, test |-> T] :
        T \in {S \in SUBSET rows :
                  \E alloc \in trainCounts :
                      \A c \in Classes : ClassCount(y, S, c) = count[c] - alloc[c]}}

\* train_test_split(X, y, test_size=0.3, random_state=42[, stratify=y]): the
\* shuffle is not modelled, every split of the right shape is possible.
\* {} means ValueError.
SplitWith(y, stratify, count, n, n_test, n_classes) ==
    IF n = 0 \/ n - n_test = 0
    THEN {}
    ELSE IF ~stratify
    THEN ShuffleSplits(RowsOf(y), n_test)
    ELSE IF \/ \E c \in Classes : count[c] = 1
            \/ n - n_test < n_classes
            \/ n_test < n_classes
    THEN {}
    ELSE StratifiedSplits(y, RowsOf(y), count, Allocations(count, n, n - n_test))

ClassCounts(y) == [c \in Classes |-> ClassCount(y, RowsOf(y), c)]

train_test_split(y, stratify) ==
    SplitWith(y, stratify, ClassCounts(y), Len(y), TestSize(Len(y)),
              Cardinality(ClassesPresent(y, RowsOf(y))))

\* lines 287-301: the page's version stratifies unless the smallest class has
\* fewer than 2 members (an empty y has no smallest class and is not caught)
PageStratifies(y) ==
    \A c \in ClassesPresent(y, RowsOf(y)) : ClassCount(y, RowsOf(y), c) >= 2

\* the standalone version always passes stratify=y (mutant of the page's choice)
AlwaysStratifies(y) == TRUE

\* the stage at which a model's try block is left, "none" when it runs through
\* (trainCount[c]: the rows of class c in the training fold):
\* GradientBoostingClassifier.fit refuses a training fold with a single class;
\* cross_val_score(cv=3) refuses a fold in which no class has 3 members
FailStage(name, trainCount, inject) ==
    IF inject[name] = "fit" THEN "fit"
    ELSE IF name = "Gradient Boosting" /\ (\E c \in Classes : trainCount[c] = 0) THEN "fit"
    ELSE IF inject[name] = "cv" THEN "cv"
    ELSE IF \A c \in Classes : trainCount[c] < 3 THEN "cv"
    ELSE inject[name]

Report == [cv_mean |-> "float", cv_std |-> "float", test_score |-> "float", train_score |-> "float"]

\* lines 359-363 (page) and 221 (standalone): the end of the function, given
\* the stage at which each model's try block was left
TrainReturn(variantName, split, stratified, warnings, stages, trained, scored) ==
    [stratified |-> stratified, warnings |-> warnings, split |-> split,
     stages |-> stages,
     shown |-> {name \in ModelSet : stages[name] # "none"},
     status |-> IF variantName = "page" /\ trained = <<>> THEN "raised" ELSE "returned",
     error |-> IF variantName = "page" /\ trained = <<>> THEN "all_models_failed" ELSE "none",
     trained_models |-> trained,
     model_scores |-> [k \in 1..Len(scored) |-> [name |-> scored[k], report |-> Report]],
     X_test |-> IF variantName = "page" /\ trained = <<>> THEN {} ELSE split.test]

\* whether trained_models[name] = model is reached when the try block is left
\* at the stage: the page scores the training rows before the assignment
\* (line 341), the standalone version inside the report that follows it
\* (lines 211-217)
KeepsModel(variantName, stage) ==
    stage = "none" \/ (variantName = "standalone" /\ stage = "train_score")

\* lines 324-357 (page) and 202-219 (standalone): the loop over the models
TrainLoop(variantName, split, stratified, warnings, stages) ==
    TrainReturn(variantName, split, stratified, warnings, stages,
                SelectSeq(ModelNames, LAMBDA name : KeepsModel(variantName, stages[name])),
                SelectSeq(ModelNames, LAMBDA name : stages[name] = "none"))

TrainOnSplit(variantName, y, split, stratified, warnings, inject) ==
    TrainLoop(variantName, split, stratified, warnings,
              [name \in ModelSet |->
                  FailStage(name, [c \in Classes |-> ClassCount(y, split.train, c)], inject)])

SplitFailed(stratified, warnings) ==
    [stratified |-> stratified, warnings |-> warnings,
     split |-> [train |-> {}, test |-> {}],
     stages |-> [name \in ModelSet |-> "not_run"], shown |-> {},
     status |-> "raised", error |-> "split",
     trained_models |-> <<>>, model_scores |-> <<>>, X_test |-> {}]

\* whether the version stratifies the split of y
Stratifies(variantName, y) ==
    IF variantName = "page" THEN PageStratifies(y) ELSE AlwaysStratifies(y)

\* the possible outcomes of train_ensemble_models(X, y)
train_ensemble_models(variantName, y, inject) ==
    LET stratified == Stratifies(variantName, y)
        warnings == IF variantName = "page" /\ ~stratified THEN {"stratify_skipped"} ELSE {}
        splits == train_test_split(y, stratified)
    IN IF splits = {}
       THEN {SplitFailed(stratified, warnings)}
       ELSE {TrainOnSplit(variantName, y, sp, stratified, warnings, inject) : sp \in splits}

Variants == {"page", "standalone"}

----------------------------------------------------------------------------
(* The analysis session of show_text_analysis_ml_page.  Streamlit runs the   *)
(* page function from top to bottom on every interaction: the train button's *)
(* handler when the button was clicked, then the prediction tab for the      *)
(* sample the slider selects.                                                *)

\* a comment is the sequence of the tokens japanese_tokenizer finds in it
Comments == {<<"common">>, <<"common", "w1", "w2">>}

\* the terms in the order get_feature_names_out lists them
VocabularyOrder == <<"", "common", "common w1", "w1", "w1 w2", "w2">>

numeric_cols == <<"recommend_score", "overall_satisfaction", "long_term_intention", "sense_of_contribution">>

NumericColumn(name) == [prefix |-> "", name |-> name]

WordColumn(term) == [prefix |-> "word_", name |-> term]

None == [fitted |-> FALSE, vocabulary |-> <<>>]

\* custom_tokenizer: a comment without tokens counts as the one token ''
custom_tokenizer(tokens) == IF tokens = <<>> THEN <<"">> ELSE tokens

\* the term TfidfVectorizer makes of two adjacent tokens
BigramName(first, second) ==
    CASE first = "common" /\ second = "w1" -> "common w1"
      [] first = "w1" /\ second = "w2" -> "w1 w2"
      [] OTHER -> "other bigram"

\* ngram_range: (1, 1) in the page's extractor, (1, 2) in the standalone one
TermsOf(variantName, tokens) ==
    Range(tokens) \cup
        (IF variantName = "page" THEN {}
         ELSE {BigramName(tokens[i], tokens[i + 1]) : i \in 1..(Len(tokens) - 1)})

Documents(variantName, comments) ==
    [i \in 1..Len(comments) |-> TermsOf(variantName, custom_tokenizer(comments[i]))]

\* min_df and max_df (in percent) of the two extractors
MinDf(variantName) == IF variantName = "page" THEN 1 ELSE 2

MaxDfPercent(variantName) == IF variantName = "page" THEN 95 ELSE 80

DocFreq(docs, term) == Cardinality({i \in 1..Len(docs) : term \in docs[i]})

\* the terms fit_transform keeps: found in at least min_df and in at most
\* max_df of the comments; the cap of 50 terms is never reached by the
\* comments of the model
KeptTerms(variantName, docs) ==
    SelectSeq(VocabularyOrder,
              LAMBDA term : /\ DocFreq(docs, term) >= MinDf(variantName)
                            /\ 100 * DocFreq(docs, term) <= MaxDfPercent(variantName) * Len(docs))

FittedVocabularyOf(variantName, comments) ==
    KeptTerms(variantName, Documents(variantName, comments))

FittedVocabulary(comments) == FittedVocabularyOf("page", comments)

\* an extractor that lets the exception of fit_transform out
ExtractPropagating(vocabulary) ==
    [raised |-> vocabulary = <<>>, arity |-> 2, columns |-> <<>>, vectorizer |-> None, errors |-> {}]

\* preprocess_text_features of a non-empty column of comments: the word_
\* columns and the fitted vectorizer, or (no columns, None) with an error shown
\* when fit_transform raises (no term remains)
ExtractWith(vocabulary) ==
    IF vocabulary = <<>>
    THEN [raised |-> FALSE, arity |-> 2, columns |-> <<>>, vectorizer |-> None,
          errors |-> {"text_feature_extraction"}]
    ELSE [raised |-> FALSE, arity |-> 2,
          columns |-> [k \in 1..Len(vocabulary) |-> WordColumn(vocabulary[k])],
          vectorizer |-> [fitted |-> TRUE, vocabulary |-> vocabulary],
          errors |-> {}]

\* what makes the try block of preprocess_text_features raise before a
\* vocabulary is kept: an exception of the tokenizer or the library (throws),
\* or max_df * n_documents < min_df
FitRaises(variantName, n_documents, throws) ==
    throws \/ MaxDfPercent(variantName) * n_documents < 100 * MinDf(variantName)

\* preprocess_text_features(comments) of either version; for no comment at all
\* the page's version returns a single frame, the standalone one a pair
Extractor(variantName, comments, throws) ==
    IF Len(comments) = 0
    THEN [raised |-> FALSE, arity |-> IF variantName = "page" THEN 1 ELSE 2,
          columns |-> <<>>, vectorizer |-> None, errors |-> {}]
    ELSE IF FitRaises(variantName, Len(comments), throws)
    THEN ExtractWith(<<>>)
    ELSE ExtractWith(FittedVocabularyOf(variantName, comments))

preprocess_text_features(comments) == Extractor("page", comments, FALSE)

\* lines 784-786 and 900-901 (standalone 414-416, 460-461): what the train
\* button's handler does with the extractor's return value
AfterExtraction(ext) ==
    IF ext.raised THEN "exception"
    ELSE IF ext.arity # 2 THEN "unpack_error"
    ELSE IF Len(ext.columns) > 0 THEN "assemble_and_train"
    ELSE "extraction_failed"

CommentsOf(frame) == [i \in 1..Len(frame) |-> frame[i].comment]

LabelsOf(frame) == [i \in 1..Len(frame) |-> frame[i].is_low_satisfaction]

\* st.session_state: a function from the keys present to their values
NoKeys == [k \in {} |-> None]

Has(ss, key) == key \in DOMAIN ss

Store(ss, key, value) == (key :> value) @@ ss

\* the fitted models, in the order of the trained_models dictionary
FittedModels(trained, columns) ==
    [k \in 1..Len(trained) |-> [name |-> trained[k], feature_names_in |-> columns]]

\* lines 880-884: the keys written after a training run that returned
StoreArtifacts(ss, out, columns, vectorizer) ==
    Store(Store(Store(Store(ss,
        "ml_models", FittedModels(out.trained_models, columns)),
        "ml_scores", out.model_scores),
        "ml_feature_names", columns),
        "ml_vectorizer", vectorizer)

\* the exceptions of a model's try block that decide which models a session
\* ends with: whether its try block is left or not
SessionInjects == [ModelSet -> {"none", "fit"}]

\* lines 781-901, the train button's handler: the session it leaves and
\* whether the page goes on to the tabs below (the handler's except branch
\* returns from the page function)
TrainButtonWith(ss, frame, ext, outcomes) ==
    IF Len(ext.columns) = 0
    THEN {[session |-> ss, goes_on |-> TRUE, trained |-> <<>>]}
    ELSE {IF out.status = "raised"
          THEN [session |-> ss, goes_on |-> FALSE, trained |-> <<>>]
          ELSE [session |-> StoreArtifacts(ss, out, [k \in 1..Len(numeric_cols) |-> NumericColumn(numeric_cols[k])] \o ext.columns, ext.vectorizer),
                goes_on |-> TRUE, trained |-> out.trained_models]
          : out \in outcomes}

TrainButton(ss, frame) ==
    TrainButtonWith(ss, frame, preprocess_text_features(CommentsOf(frame)),
                    UNION {train_ensemble_models("page", LabelsOf(frame), inject) :
                              inject \in SessionInjects})

\* lines 404-463 of the standalone application, the train button's handler:
\* an exception of the split is not caught and ends the run of the script;
\* whatever train_ensemble_models returns is stored, with X and y
StandaloneTrainButtonWith(ss, frame, ext, outcomes) ==
    IF Len(ext.columns) = 0
    THEN {[session |-> ss, goes_on |-> TRUE, trained |-> <<>>]}
    ELSE {IF out.status = "raised"
          THEN [session |-> ss, goes_on |-> FALSE, trained |-> <<>>]
          ELSE [session |-> Store(Store(StoreArtifacts(ss, out, [k \in 1..Len(numeric_cols) |-> NumericColumn(numeric_cols[k])] \o ext.columns, ext.vectorizer),
                                        "ml_X", [k \in 1..Len(numeric_cols) |-> NumericColumn(numeric_cols[k])] \o ext.columns),
                                  "ml_y", LabelsOf(frame)),
                goes_on |-> TRUE, trained |-> out.trained_models]
          : out \in outcomes}

StandaloneTrainButton(ss, frame) ==
    StandaloneTrainButtonWith(ss, frame, Extractor("standalone", CommentsOf(frame), FALSE),
                              UNION {train_ensemble_models("standalone", LabelsOf(frame), inject) :
                                        inject \in SessionInjects})

\* the train button's handler of either application
TrainButtonOf(variantName, ss, frame) ==
    IF variantName = "page" THEN TrainButton(ss, frame) ELSE StandaloneTrainButton(ss, frame)

\* lines 906-911 (standalone 468-473): the importance tab computes a ranking
\* when the key of the models is in the session
ImportanceTabRanks(ss) == Has(ss, "ml_models")

\* what the prediction tab shows
NotRun == [kind |-> "none", comment |-> <<>>, labels |-> {}, handed |-> <<>>]

Refusal(kind, comment) == [kind |-> kind, comment |-> comment, labels |-> {}, handed |-> <<>>]

\* a vote that follows the first model
FirstVote(votes) == votes[1]

\* a vote that gives the smaller label when the counts are equal
SmallestOnTie(votes) ==
    LET count(l) == Cardinality({k \in 1..Len(votes) : votes[k] = l})
    IN IF count(0) >= count(1) THEN 0 ELSE 1

\* Counter(votes).most_common(1)[0][0]: the label with the most votes, the one
\* voted first when the counts are equal
MostCommon(votes) ==
    LET count(l) == Cardinality({k \in 1..Len(votes) : votes[k] = l})
    IN IF count(votes[1]) >= count(1 - votes[1]) THEN votes[1] ELSE 1 - votes[1]

\* whether something in the try block of lines 1045-1144 raises outside the
\* per-model try blocks: preprocess_japanese_text accepts every string, the
\* vectorizer is looked up only behind the test of its key, transform accepts
\* unseen tokens
TryBlockRaisesUnguarded(ss, comment) == ~Has(ss, "vectorizer")

TryBlockRaises(ss, comment) == FALSE

\* line 1050: the key under which the prediction tab looks the vectorizer up
VectorizerLookupKey == "vectorizer"

\* line 1051: vectorizer.transform([processed_text]), the columns of the
\* matrix handed to model.predict: the vocabulary's columns alone
TransformedColumns(vectorizer) ==
    [k \in 1..Len(vectorizer.vocabulary) |-> WordColumn(vectorizer.vocabulary[k])]

\* lines 1058-1066: model.predict raises, and the model is skipped, when the
\* matrix does not have as many columns as the matrix the model was fitted on
Predicts(model, columns) == Len(columns) = Len(model.feature_names_in)

\* lines 1054-1139, given the matrix handed to the models and the label each
\* model would predict
PredictWithModels(ss, comment, columns, preds) ==
    IF ~(Has(ss, "ml_models") /\ Len(ss["ml_models"]) > 0)
    THEN Refusal("models_not_trained", comment)
    ELSE LET models == ss["ml_models"]
             voters == SelectSeq([k \in 1..Len(models) |-> models[k].name],
                                   LAMBDA name : \E k \in 1..Len(models) :
                                       models[k].name = name /\ Predicts(models[k], columns))
         IN IF voters = <<>>
            THEN [kind |-> "all_predictions_failed", comment |-> comment, labels |-> {},
                  handed |-> [k \in 1..Len(models) |-> [name |-> models[k].name, columns |-> columns]]]
            ELSE [kind |-> "result", comment |-> comment,
                  labels |-> {MostCommon([k \in 1..Len(voters) |-> preds[voters[k]]])},
                  handed |-> [k \in 1..Len(models) |-> [name |-> models[k].name, columns |-> columns]]]

\* lines 1013-1168, the prediction tab for the comment of the selected sample:
\* every display it can end with
PredictionTab(ss, comment) ==
    IF ~Has(ss, "ml_models")
    THEN {Refusal("train_first", <<>>)}
    ELSE IF comment = <<>>
    THEN {Refusal("no_comment", comment)}
    ELSE IF TryBlockRaises(ss, comment)
    THEN {[kind |-> "fabricated", comment |-> comment, labels |-> {l}, handed |-> <<>>] : l \in Classes}
    ELSE IF ~(Has(ss, VectorizerLookupKey) /\ ss[VectorizerLookupKey].fitted)
    THEN {Refusal("vectorizer_not_initialised", comment)}
    ELSE {PredictWithModels(ss, comment, TransformedColumns(ss[VectorizerLookupKey]), preds) :
             preds \in [ModelSet -> Classes]}

\* What one model's calls of lines 1060-1061 give: an exception, or the
\* classes the model was fitted on with the probability of each, in steps of
\* 1/ProbSteps
PredictFails == [failed |-> TRUE, classes |-> <<>>, prob |-> <<>>]

CallOutcomes ==
    {PredictFails}
    \cup {[failed |-> FALSE, classes |-> <<c>>, prob |-> <<ProbSteps>>] : c \in Classes}
    \cup {[failed |-> FALSE, classes |-> <<0, 1>>, prob |-> <<a, ProbSteps - a>>] : a \in 0..ProbSteps}

\* np.argmax: the first of the largest entries
ArgMax(prob) == IF Len(prob) = 1 \/ prob[1] >= prob[2] THEN 1 ELSE 2

\* model.predict(text_features)[0]: the class of the largest probability
PredictedClass(call) == call.classes[ArgMax(call.prob)]

\* a spread that forgets the smallest probability
SpreadAsMax(prob) == IF Len(prob) = 1 \/ prob[1] >= prob[2] THEN prob[1] ELSE prob[2]

\* line 1102: max(prob) - min(prob)
Spread(prob) ==
    IF Len(prob) = 1 THEN 0
    ELSE IF prob[1] >= prob[2] THEN prob[1] - prob[2] ELSE prob[2] - prob[1]

\* lines 1100-1103: the spreads of the probability vectors of two or more classes
ConfidenceScores(probs) ==
    LET wide == SelectSeq(probs, LAMBDA prob : Len(prob) >= 2)
    IN [k \in 1..Len(wide) |-> Spread(wide[k])]

SumSeq(numbers) ==
    LET F[k \in 0..Len(numbers)] == IF k = 0 THEN 0 ELSE F[k - 1] + numbers[k]
    IN F[Len(numbers)]

NoConfidence == [shown |-> FALSE, sum |-> 0, count |-> 0, level |-> "none"]

\* lines 1105-1108: np.mean(confidence_scores), kept as sum and count (in
\* steps of 1/ProbSteps), and its level
ConfidenceOf(scores) ==
    IF scores = <<>> THEN NoConfidence
    ELSE [shown |-> TRUE, sum |-> SumSeq(scores), count |-> Len(scores),
          level |-> IF 10 * SumSeq(scores) > 6 * ProbSteps * Len(scores) THEN "high"
                    ELSE IF 10 * SumSeq(scores) > 3 * ProbSteps * Len(scores) THEN "medium"
                    ELSE "low"]

\* lines 1055-1139: the loop over the trained models, the vote and the
\* confidence, given what each model's calls give
EnsembleOf(names, voters, calls) ==
    IF voters = <<>>
    THEN [kind |-> "all_predictions_failed", labels |-> {},
          warned |-> Range(names), confidence |-> NoConfidence]
    ELSE [kind |-> "result",
          labels |-> {MostCommon([k \in 1..Len(voters) |-> PredictedClass(calls[voters[k]])])},
          warned |-> Range(names) \ Range(voters),
          confidence |-> ConfidenceOf(ConfidenceScores([k \in 1..Len(voters) |-> calls[voters[k]].prob]))]

EnsemblePrediction(names, calls) ==
    EnsembleOf(names, SelectSeq(names, LAMBDA name : ~calls[name].failed), calls)

\* the frames of a session: the rows of a loaded spreadsheet, each with its
\* comment and its derived label
DerivedLabelVectors(n) ==
    {LabelLowSatisfaction(n, TRUE, sat, FALSE, 0).labels : sat \in [1..n -> {Num(x) : x \in ScoreValues}]}

SessionFrames ==
    UNION {{[i \in 1..n |-> [comment |-> comments[i], is_low_satisfaction |-> labels[i]]] :
               comments \in [1..n -> Comments], labels \in DerivedLabelVectors(n)} :
           n \in (MaxSessionRows - 1)..MaxSessionRows}

----------------------------------------------------------------------------
(* Assembly of the feature matrix in the train button's handler, and the    *)
(* fitting of the models on it.  A cell of the frame's numeric columns is a *)
(* float: a number, NaN (a value the loader could not coerce) or inf (text  *)
(* such as 'inf', which pd.to_numeric reads as a float).                    *)

Inf == [na |-> FALSE, v |-> 0, inf |-> TRUE]

IsNull(cell) == cell.na

IsFinite(cell) == ~cell.na /\ cell # Inf

FrameCells == {to_numeric(c) : c \in RawCells} \cup {Inf}

\* a cell of the TF-IDF matrix: a finite float
TfidfCell == Num(0)

\* line 800: pd.to_numeric(errors='coerce') of a column that already holds
\* floats keeps every cell, NaN and inf included
to_numeric_float(cell) == IF IsNull(cell) THEN NaN ELSE cell

\* a matrix left as it is
keepna(cell, value) == cell

\* X.fillna(value)
fillna(cell, value) == IF IsNull(cell) THEN Num(value) ELSE cell

\* the value the handler puts in place of a missing cell (line 863)
FillValue(column) == 0

\* pd.concat([numeric_features, text_features], axis=1): the rows of X
Concat(numeric_features, text_features) ==
    [p \in 1..Len(numeric_features) |-> numeric_features[p] \o text_features[p]]

HasNull(rows) == \E p \in 1..Len(rows) : \E k \in 1..Len(rows[p]) : IsNull(rows[p][k])

ColumnOf(rows, k) == [p \in 1..Len(rows) |-> rows[p][k]]

FillRows(rows) ==
    [p \in 1..Len(rows) |-> [k \in 1..Len(rows[p]) |-> fillna(rows[p][k], FillValue(ColumnOf(rows, k)))]]

AssembledColumns(n_words) ==
    [k \in 1..Len(numeric_cols) |-> NumericColumn(numeric_cols[k])]
        \o [k \in 1..n_words |-> WordColumn(VocabularyOrder[k])]

\* lines 860-865: missing values are announced with a warning and filled
CheckedMatrix(columns, rows, coerce_errors) ==
    [columns |-> columns,
     rows |-> IF HasNull(rows) THEN FillRows(rows) ELSE rows,
     had_null |-> HasNull(rows),
     shown |-> coerce_errors \cup (IF HasNull(rows) THEN {"missing_values_filled"} ELSE {})]

\* lines 788-865 of the page: the numeric columns coerced, the TF-IDF columns
\* appended
AssemblePage(numeric, n_words) ==
    LET numeric_features ==
            [p \in 1..Len(numeric) |-> [k \in 1..Len(numeric[p]) |-> to_numeric_float(numeric[p][k])]]
        text_features == [p \in 1..Len(numeric) |-> [k \in 1..n_words |-> TfidfCell]]
    IN CheckedMatrix(AssembledColumns(n_words),
                     Concat(numeric_features, text_features),
                     IF HasNull(numeric_features) THEN {"not_coercible"} ELSE {})

\* lines 421-423 of the standalone application: the columns are concatenated
\* as they are
AssembleStandalone(numeric, n_words) ==
    [columns |-> AssembledColumns(n_words),
     rows |-> Concat(numeric, [p \in 1..Len(numeric) |-> [k \in 1..n_words |-> TfidfCell]]),
     had_null |-> HasNull(numeric),
     shown |-> {}]

Assemble(variantName, numeric, n_words) ==
    IF variantName = "page" THEN AssemblePage(numeric, n_words)
    ELSE AssembleStandalone(numeric, n_words)

\* the models whose fit accepts NaN cells when the installed scikit-learn
\* supports missing values in trees; no model accepts inf
AcceptsNaN(name, treesAcceptNaN) ==
    treesAcceptNaN /\ name \in {"Decision Tree", "Random Forest"}

\* check_array in fit, cross_val_score, predict and score: ValueError on a
\* cell the estimator does not accept
RejectsRows(name, treesAcceptNaN, X_rows, positions) ==
    \E p \in positions : \E k \in 1..Len(X_rows[p + 1]) :
        \/ X_rows[p + 1][k] = Inf
        \/ IsNull(X_rows[p + 1][k]) /\ ~AcceptsNaN(name, treesAcceptNaN)

\* the stage at which the cells of X make a model's try block end
CellFailures(treesAcceptNaN, X_rows, split) ==
    [name \in ModelSet |->
        IF RejectsRows(name, treesAcceptNaN, X_rows, split.train) THEN "fit"
        ELSE IF RejectsRows(name, treesAcceptNaN, X_rows, split.test) THEN "score"
        ELSE "none"]

\* train_ensemble_models(X, y) on an assembled matrix: its possible outcomes
TrainOnMatrix(variantName, X_rows, y, treesAcceptNaN) ==
    LET stratified == Stratifies(variantName, y)
        warnings == IF variantName = "page" /\ ~stratified THEN {"stratify_skipped"} ELSE {}
        splits == train_test_split(y, stratified)
    IN IF splits = {}
       THEN {SplitFailed(stratified, warnings)}
       ELSE {TrainOnSplit(variantName, y, sp, stratified, warnings,
                          CellFailures(treesAcceptNaN, X_rows, sp)) : sp \in splits}

----------------------------------------------------------------------------
(* Ranking of the features by importance: the chart of                      *)
(* visualize_feature_importance (page and standalone) and the per-model     *)
(* table of the page.  An importance is a multiple of 0.001.                *)

Reverse(seq) == [k \in 1..Len(seq) |-> seq[Len(seq) + 1 - k]]

Head_n(seq, n) == SubSeq(seq, 1, IF n < Len(seq) THEN n ELSE Len(seq))

\* The characters of a word, by the classes the patterns of
\* filter_meaningful_words tell apart: a hiragana of the range a-n that the
\* character class of the third pattern holds ("de") or not ("ki"), a hiragana
\* outside that range ("small"), a katakana of the range a-n ("ka") or outside
\* it ("bar", the long-vowel mark), an ASCII digit ("9"), a full-width digit
\* ("wide9"), a Latin letter ("a"), a kanji
WordChars == {"ki", "de", "small", "ka", "bar", "9", "wide9", "a", "kanji"}

\* the shapes of the words of the list meaningful_words (lines 377-386): two or
\* three kanji, or three and more katakana
ListedShapes ==
    {<<"kanji", "kanji">>, <<"kanji", "kanji", "kanji">>, <<"ka", "ka", "ka">>, <<"ka", "bar", "ka">>}

\* re.match(r'^[class]{1,2}$', word)
ShortWordOf(chars, class) ==
    Len(chars) \in 1..2 /\ \A k \in 1..Len(chars) : chars[k] \in class

\* lines 365-398.  A word is its characters and whether it is one of the
\* list meaningful_words.  The third pattern is a character class: it rejects
\* every word that begins with one of the characters between its brackets.
filter_meaningful_words(word) ==
    IF \/ ShortWordOf(word.chars, {"ki", "de"})
       \/ ShortWordOf(word.chars, {"ka"})
       \/ Len(word.chars) >= 1 /\ word.chars[1] = "de"
       \/ Len(word.chars) >= 1 /\ \A k \in 1..Len(word.chars) : word.chars[k] = "9"
       \/ ShortWordOf(word.chars, {"a"})
    THEN FALSE
    ELSE IF Len(word.chars) <= 2 THEN word.listed
    ELSE TRUE

\* the words behind the terms of the vocabulary: 'common' is a listed word of
\* two kanji, the others a letter and a digit
Spelling(term) ==
    CASE term = "" -> [chars |-> <<>>, listed |-> FALSE]
      [] term = "common" -> [chars |-> <<"kanji", "kanji">>, listed |-> TRUE]
      [] OTHER -> [chars |-> <<"a", "9">>, listed |-> FALSE]

\* lines 421-429 and 930-972: whether a column enters the ranking: a word_
\* column only if its word is meaningful and its importance above 0.001,
\* every other column
KeepsFeature(prefix, word, importance) ==
    prefix # "word_" \/ (filter_meaningful_words(word) /\ importance > 1)

\* lines 417-429 and 926-972: the columns that enter the ranking (0-based)
MeaningfulColumns(feature_names, importances) ==
    SelectSeq([k \in 1..Len(feature_names) |-> k - 1],
              LAMBDA idx : KeepsFeature(feature_names[idx + 1].prefix,
                                        Spelling(feature_names[idx + 1].name),
                                        importances[idx + 1]))

AllColumns(feature_names) == [k \in 1..Len(feature_names) |-> k - 1]

\* the ranking that lists kept[i + 1] for each i of order
RankingOf(kept, importances, order) ==
    [k \in 1..Len(order) |->
        [column |-> kept[order[k] + 1], importance |-> importances[kept[order[k] + 1] + 1]]]

\* np.argsort(values)[::-1][:top_n]
ArgsortDescending(kept, importances, top_n) ==
    Head_n(Reverse(np_argsort([k \in 1..Len(kept) |-> importances[kept[k] + 1]], 0)), top_n)

\* list.sort(key=importance, reverse=True)[:15]: equal elements keep their order
SortDescending(kept, importances, top_n) ==
    Head_n(np_argsort([k \in 1..Len(kept) |-> 0 - importances[kept[k] + 1]], 0), top_n)

\* text_analysis_ml.visualize_feature_importance, lines 411-434
ChartRanking(feature_names, importances, top_n) ==
    LET kept == MeaningfulColumns(feature_names, importances)
    IN RankingOf(kept, importances, ArgsortDescending(kept, importances, top_n))

\* ai_text_analysis_standalone.visualize_feature_importance, lines 231-236
StandaloneChartRanking(feature_names, importances, top_n) ==
    RankingOf(AllColumns(feature_names), importances,
              ArgsortDescending(AllColumns(feature_names), importances, top_n))

\* the per-model table of the page, lines 922-976
TableRanking(feature_names, importances) ==
    LET kept == MeaningfulColumns(feature_names, importances)
    IN RankingOf(kept, importances, SortDescending(kept, importances, TableTop))

Ranking(view, feature_names, importances, top_n) ==
    CASE view = "chart" -> ChartRanking(feature_names, importances, top_n)
      [] view = "standalone_chart" -> StandaloneChartRanking(feature_names, importances, top_n)
      [] OTHER -> TableRanking(feature_names, importances)

----------------------------------------------------------------------------
(* Tokenizer selection at start-up and japanese_tokenizer.  A text is a     *)
(* sequence of characters: a letter (small or capital), a digit, a blank or *)
(* a punctuation mark; the argument may also be None or NaN.                *)

Chars == {"a", "A", "1", " ", "!"}

\* the classes by which a morphological analyzer groups characters it has no
\* dictionary word for
CharClass == [c \in Chars |->
                 CASE c \in {"a", "A"} -> "alpha" [] c = "1" -> "numeric" [] c = " " -> "space"
                   [] OTHER -> "symbol"]

\* \w (and the Japanese ranges of the page's pattern) against everything else
WordClass == [c \in Chars |-> IF c \in {"a", "A", "1"} THEN "word" ELSE "separator"]

\* the maximal runs of characters of one class
Runs(chars, classOf) ==
    LET F[k \in 0..Len(chars)] ==
            IF k = 0 THEN <<>>
            ELSE IF k > 1 /\ classOf[chars[k]] = classOf[chars[k - 1]]
                 THEN [F[k - 1] EXCEPT ![Len(F[k - 1])] = Append(@, chars[k])]
                 ELSE Append(F[k - 1], <<chars[k]>>)
    IN F[Len(chars)]

\* a text left as it is
StripNothing(chars) == chars

\* str.strip()
Strip(chars) ==
    LET blanks == {k \in 1..Len(chars) : chars[k] # " "}
    IN IF blanks = {} THEN <<>>
       ELSE SubSeq(chars, CHOOSE k \in blanks : \A j \in blanks : k <= j,
                          CHOOSE k \in blanks : \A j \in blanks : k >= j)

\* str.isdigit()
isdigit(token) == token # <<>> /\ \A k \in 1..Len(token) : token[k] = "1"

\* re.findall(r'[...\w]+', text) and re.findall(r'\w+', text)
RegexSplit(chars) == SelectSeq(Runs(chars, WordClass), LAMBDA run : WordClass[run[1]] = "word")

\* tokenizer.tokenize(text, wakati=True): every run is a token, blanks included
JanomeTokens(chars) == Runs(chars, CharClass)

\* mecab.parse(text).strip().split(): the runs between blanks
MecabTokens(chars) == SelectSeq(Runs(chars, CharClass), LAMBDA run : run[1] # " ")

\* lines 23-35 of the page, 33-42 of the standalone application: TOKENIZER_TYPE
TokenizerType(variantName, janomeAvailable, mecabAvailable) ==
    IF janomeAvailable THEN "janome"
    ELSE IF variantName = "page" /\ mecabAvailable THEN "mecab"
    ELSE "simple"

\* lines 79-85 (page): stripped tokens of one character or more, not all digits
PageFilter(tokens) ==
    SelectSeq([k \in 1..Len(tokens) |-> Strip(tokens[k])],
              LAMBDA token : Len(token) >= 1 /\ ~isdigit(token))

\* lines 59-62 (standalone): tokens of two characters or more, not all digits
StandaloneFilter(tokens) ==
    SelectSeq(tokens, LAMBDA token : Len(token) >= 2 /\ ~isdigit(token))

RawTokens(tokenizerType, chars) ==
    CASE tokenizerType = "janome" -> JanomeTokens(chars)
      [] tokenizerType = "mecab" -> MecabTokens(chars)
      [] OTHER -> RegexSplit(chars)

\* the try block and its except branches, on the stripped text.  regexRaises:
\* re.findall raises (the bare except of line 96 also takes an exhausted
\* memory or an interrupt); the page then returns the text itself
TokenizeStripped(variantName, tokenizerType, chars, analyzerRaises, regexRaises) ==
    IF variantName = "page"
    THEN IF tokenizerType = "simple" \/ analyzerRaises
         THEN IF regexRaises THEN <<chars>> ELSE PageFilter(RegexSplit(chars))
         ELSE PageFilter(RawTokens(tokenizerType, chars))
    ELSE IF tokenizerType = "simple"
         THEN IF regexRaises THEN <<>> ELSE StandaloneFilter(RegexSplit(chars))
         ELSE IF analyzerRaises THEN <<>>
         ELSE StandaloneFilter(RawTokens(tokenizerType, chars))

\* japanese_tokenizer(text): text is None, NaN or a string
japanese_tokenizer(variantName, tokenizerType, text, analyzerRaises, regexRaises) ==
    IF text.kind \in {"None", "NaN"} \/ text.chars = <<>>
    THEN <<>>
    ELSE IF Strip(text.chars) = <<>>
    THEN <<>>
    ELSE TokenizeStripped(variantName, tokenizerType, Strip(text.chars),
                          analyzerRaises, regexRaises)

----------------------------------------------------------------------------
(* The cleaning of a comment before it reaches the vectorizer: in           *)
(* preprocess_text_features when the vectorizer is fitted, in the           *)
(* prediction tab when a sample's comment is transformed.                   *)

\* re.sub(r'[^\w\s]', by, text)
SubPunctuation(chars, by) ==
    LET F[k \in 0..Len(chars)] ==
            IF k = 0 THEN <<>>
            ELSE IF chars[k] = "!" THEN F[k - 1] \o by ELSE Append(F[k - 1], chars[k])
    IN F[Len(chars)]

\* re.sub(r'\s+', ' ', text)
CollapseBlanks(chars) ==
    LET F[k \in 0..Len(chars)] ==
            IF k = 0 THEN <<>>
            ELSE IF chars[k] = " " /\ k > 1 /\ chars[k - 1] = " " THEN F[k - 1]
            ELSE Append(F[k - 1], chars[k])
    IN F[Len(chars)]

\* str.lower()
lower(chars) == [k \in 1..Len(chars) |-> IF chars[k] = "A" THEN "a" ELSE chars[k]]

\* ' '.join(tokens)
Join(tokens) ==
    LET F[k \in 0..Len(tokens)] ==
            IF k = 0 THEN <<>>
            ELSE IF k = 1 THEN tokens[1]
            ELSE F[k - 1] \o <<" ">> \o tokens[k]
    IN F[Len(tokens)]

\* lines 184-186: the cleaning of preprocess_text_features
CleanComment(chars) == CollapseBlanks(SubPunctuation(Strip(chars), <<" ">>))

\* lines 37-53: preprocess_japanese_text
preprocess_japanese_text(tokenizerType, chars) ==
    IF Strip(chars) = <<>> THEN <<>>
    ELSE Join(japanese_tokenizer("page", tokenizerType,
                                 [kind |-> "str",
                                  chars |-> lower(CollapseBlanks(SubPunctuation(Strip(chars), <<>>)))],
                                 FALSE, FALSE))

\* the analyzer of the vectorizer (lines 192-204): custom_tokenizer on the
\* text as it is given (lowercase=False), the empty token for a text without
\* tokens
VectorizerTokens(tokenizerType, chars) ==
    LET tokens == japanese_tokenizer("page", tokenizerType, [kind |-> "str", chars |-> chars],
                                     FALSE, FALSE)
    IN IF tokens = <<>> THEN << <<>> >> ELSE tokens

\* line 207: the tokens fit_transform counts for a comment
TrainingTokens(tokenizerType, chars) == VectorizerTokens(tokenizerType, CleanComment(chars))

\* lines 1047-1051: the tokens transform counts for the same comment
PredictionTokens(tokenizerType, chars) ==
    VectorizerTokens(tokenizerType, preprocess_japanese_text(tokenizerType, chars))

----------------------------------------------------------------------------
(* The known numeric columns in one run of show_text_analysis_ml_page: the  *)
(* loader, the summary statistics at the top of the page and the column     *)
(* selection of the train button's handler.                                 *)

KnownColumns == Range(numeric_cols)

\* the columns of the frame the page works on: those of the spreadsheet, or all
\* of them when the loader fell back to generated data (lines 99-162, 609)
ColumnsOfFrame(present, is_real) == IF is_real THEN present ELSE KnownColumns

\* df[name] and df[names] raise KeyError unless every wanted column is there
KeyError(columns, wanted) == ~(wanted \subseteq columns)

\* lines 612-629: the four metrics; an exception here ends the run of the page
SummaryStatistics(columns) ==
    IF KeyError(columns, {"recommend_score", "overall_satisfaction"}) THEN "KeyError" ELSE "shown"

\* lines 781-790 and 893-901: the handler up to df[numeric_cols]; its except
\* branch shows the KeyError as a feature processing error and returns
SelectNumericColumns(columns, n_words) ==
    IF n_words = 0 THEN "extraction_failed"
    ELSE IF KeyError(columns, KnownColumns) THEN "feature_processing_error"
    ELSE "assembled"

\* one run of the page on a spreadsheet, with or without a click on the button
PageRun(table, loadResult, clicked, n_words) ==
    [loaded |-> loadResult,
     summary |-> SummaryStatistics(ColumnsOfFrame(table.present, loadResult.is_real)),
     assembly |->
         IF SummaryStatistics(ColumnsOfFrame(table.present, loadResult.is_real)) = "KeyError"
         THEN "not_reached"
         ELSE IF ~clicked THEN "not_clicked"
         ELSE SelectNumericColumns(ColumnsOfFrame(table.present, loadResult.is_real), n_words)]

\* the spreadsheet as load_real_data_for_analysis reads it
LoaderTable(table) ==
    [exists |-> TRUE, n |-> table.n,
     hasSat |-> "overall_satisfaction" \in table.present, sat |-> table.sat]

----------------------------------------------------------------------------
(* Idle values of the parts a specification does not exercise *)

IdleTrainIn == [variant |-> "page", y |-> <<>>, inject |-> <<>>]
IdleLoader == [exists |-> FALSE, n |-> 0, hasSat |-> FALSE, sat |-> <<>>]
IdleTrainOut == [status |-> "idle"]

LoaderIdle == pandasNaLast = FALSE /\ raw = IdleLoader /\ loaded = NotLoaded
TrainerIdle == trainIn = IdleTrainIn /\ trainOut = IdleTrainOut
SessionIdle == df = <<>> /\ session_state = NoKeys /\ display = NotRun
NoCall == [fn |-> "none"]
CallIdle == args = NoCall /\ result = NoCall

----------------------------------------------------------------------------
(* Specification of the loader: a spreadsheet is drawn, then loaded *)

InitLabel ==
    /\ pandasNaLast \in BOOLEAN
    /\ raw \in RawTables
    /\ loaded = NotLoaded
    /\ TrainerIdle
    /\ SessionIdle
    /\ CallIdle

Load ==
    /\ ~loaded.done
    /\ \E tie \in TieBreaks(raw.n) :
           loaded' = load_real_data_for_analysis(raw, pandasNaLast, tie)
    /\ UNCHANGED <<pandasNaLast, raw, trainerVars, sessionVars, callVars>>

NextLabel == Load

SpecLabel == InitLabel /\ [][NextLabel]_vars

PositiveCount(labels) == Cardinality({i \in 1..Len(labels) : labels[i] = 1})

\* Python's round(0.2 * n): 0.2 * n is never halfway between two integers
Round02(n) == (2 * n + 5) \div 10

\* the label derivation ran to its end on the spreadsheet's own rows
Derived == loaded.done /\ loaded.is_real /\ loaded.hasSat

----------------------------------------------------------------------------
(* Specification of a session: a frame is drawn, then the page runs again   *)
(* and again, with or without a click on the train button                   *)

Init ==
    /\ LoaderIdle
    /\ TrainerIdle
    /\ CallIdle
    /\ df \in SessionFrames
    /\ session_state = NoKeys
    /\ display = NotRun

\* a run of the page with the train button clicked
ClickTrain ==
    \E after \in TrainButton(session_state, df) :
        \E sample_idx \in 0..(Len(df) - 1) :
            /\ session_state' = after.session
            /\ IF after.goes_on
               THEN display' \in PredictionTab(after.session, df[sample_idx + 1].comment)
               ELSE display' = Refusal("not_rendered", <<>>)
            /\ UNCHANGED <<df, loaderVars, trainerVars, callVars>>

\* a run of the page without a click: the slider was moved
MoveSlider ==
    \E sample_idx \in 0..(Len(df) - 1) :
        /\ display' \in PredictionTab(session_state, df[sample_idx + 1].comment)
        /\ UNCHANGED <<df, session_state, loaderVars, trainerVars, callVars>>

Next == ClickTrain \/ MoveSlider

Spec == Init /\ [][Next]_vars

\* a training run has completed successfully in this session
Trained == Has(session_state, "ml_models")

\* the prediction tab was rendered in the last run of the page
TabRendered == display.kind \notin {"none", "not_rendered"}

----------------------------------------------------------------------------
(* Claims about prediction in a session                                     *)

\* C1: once a training run has completed successfully in the session, the
\* prediction tab rendered for a sample with a non-empty comment shows a
\* prediction result, never a refusal
C1_PredictsAfterTraining ==
    (Trained /\ TabRendered /\ display.comment # <<>>) => display.kind = "result"

\* C2: at prediction time each trained model is handed a feature vector, and
\* its columns are those of the training matrix, in the same order: the
\* numeric columns followed by the vocabulary columns
C2_HandedVectorHasTrainingColumns ==
    (Trained /\ TabRendered /\ display.comment # <<>>) =>
        /\ Len(display.handed) = Len(session_state["ml_models"])
        /\ \A k \in 1..Len(display.handed) :
               display.handed[k].columns = session_state["ml_feature_names"]

\* the fitted extractor as the prediction tab looks it up (line 1050)
ExtractorAbsent ==
    ~(Has(session_state, VectorizerLookupKey) /\ session_state[VectorizerLookupKey].fitted)

ModelsAbsent == ~(Has(session_state, "ml_models") /\ Len(session_state["ml_models"]) > 0)

PreconditionFailures == {"train_first", "vectorizer_not_initialised", "models_not_trained"}

----------------------------------------------------------------------------
(* Claims about label derivation, checked under SpecLabel *)

\* C4: for a dataset of N records with a satisfaction column, label derivation
\* marks exactly floor(0.2 * N) records with is_low_satisfaction = 1 and all
\* other records with 0.
C4_ExactlyFloorFifthLabelled ==
    Derived =>
        /\ Len(loaded.labels) = loaded.n
        /\ \A i \in 1..loaded.n : loaded.labels[i] \in {0, 1}
        /\ PositiveCount(loaded.labels) = loaded.n \div 5

C4_Witness == Derived /\ loaded.n >= 5 /\ (\E i \in 1..loaded.n : loaded.sat[i].na)

\* C5 (as claimed): every record labelled 1 has a satisfaction score less than
\* or equal to the score of every record labelled 0, also when some scores were
\* coerced to missing.  Stated here in its weakest reading: only for pairs of
\* records whose scores are both present.
C5_LabelledBelowUnlabelled ==
    Derived =>
        \A i, j \in 1..loaded.n :
            (/\ loaded.labels[i] = 1 /\ loaded.labels[j] = 0
             /\ ~loaded.sat[i].na /\ ~loaded.sat[j].na)
            => loaded.sat[i].v <= loaded.sat[j].v

\* C6 (as claimed): for every N >= 5 the number of records labelled 1 equals
\* round(0.2 * N).
C6_CountIsRounded ==
    (Derived /\ loaded.n >= 5) => PositiveCount(loaded.labels) = Round02(loaded.n)

\* C6 (amended): whenever label derivation completes on N >= 5 records, the
\* number of records labelled 1 is int(0.2 * N), the fraction truncated: it is
\* at least 1 and it equals round(0.2 * N) exactly when N mod 5 <= 2.
C6_CountIsTruncated ==
    (Derived /\ loaded.n >= 5) =>
        LET cnt == PositiveCount(loaded.labels)
        IN /\ cnt >= 1
           /\ 5 * cnt <= loaded.n /\ loaded.n < 5 * (cnt + 1)
           /\ (cnt = Round02(loaded.n)) <=> (loaded.n % 5 <= 2)

C6_Witness == Derived /\ loaded.n >= 5 /\ loaded.n % 5 = 3

\* C7 (as claimed): when label derivation yields zero positive labels (for
\* example N = 4 records), it reports a labelling failure instead of returning
\* an all-zero label vector that flows on to training.
C7_ZeroPositivesReported ==
    (Derived /\ loaded.n > 0 /\ PositiveCount(loaded.labels) = 0) => loaded.errors # {}

\* how many records rank before record i when equal scores rank in row order
StableRank(i) ==
    Cardinality({j \in 1..loaded.n :
                    \/ loaded.sat[j].v < loaded.sat[i].v
                    \/ loaded.sat[j].v = loaded.sat[i].v /\ j < i})

\* C25: when records share the score at the boundary of the bottom 20%, the
\* ones labelled 1 are those that come earliest in row order: the labels are
\* those of a stable ascending sort of the scores (stated for columns without
\* missing scores)
C25_TiesInRowOrder ==
    (Derived /\ \A i \in 1..loaded.n : ~loaded.sat[i].na) =>
        \A i \in 1..loaded.n :
            loaded.labels[i] = 1 <=> StableRank(i) < LowCount(loaded.n)

----------------------------------------------------------------------------
(* Specification of the trainer: arguments are drawn, then the function runs *)

InitTrain ==
    /\ LoaderIdle
    /\ trainIn \in [variant : Variants,
                    y : SeqsUpTo(Classes, MaxTrainRows),
                    inject : [ModelSet -> Stages]]
    /\ trainOut = IdleTrainOut
    /\ SessionIdle
    /\ CallIdle

TrainCall ==
    /\ trainOut.status = "idle"
    /\ trainOut' \in train_ensemble_models(trainIn.variant, trainIn.y, trainIn.inject)
    /\ UNCHANGED <<trainIn, loaderVars, sessionVars, callVars>>

NextTrain == TrainCall

SpecTrain == InitTrain /\ [][NextTrain]_vars

TrainDone == trainOut.status \in {"returned", "raised"}

\* the models whose try block ran through
Succeeded == {name \in ModelSet : trainOut.stages[name] = "none"}

\* the models whose try block was left by an exception
Failed == {name \in ModelSet : trainOut.stages[name] \in {"fit", "cv", "score", "train_score"}}

TrainedNames == Range(trainOut.trained_models)

ScoredNames == {trainOut.model_scores[k].name : k \in 1..Len(trainOut.model_scores)}

----------------------------------------------------------------------------
(* Claims about ensemble training, checked under SpecTrain *)

\* C8 (as claimed): the three model families are processed independently: a
\* failure of one model (in fit, cross-validation or scoring) never prevents
\* the remaining models from being trained and returned, and the training
\* operation as a whole raises if and only if zero models succeeded.
C8_IsolatedAndRaisesIffNoneSucceeded ==
    TrainDone =>
        /\ \A name \in Succeeded : trainOut.status = "returned" /\ name \in TrainedNames
        /\ (trainOut.status = "raised") <=> (Succeeded = {})

\* C9 (as claimed): when some but not all models fail during ensemble
\* training, the value returned by the training call contains the failure
\* details of each failed model alongside the successfully trained models:
\* the returned value has an entry about every failed model.
C9_FailureDetailsReturned ==
    (TrainDone /\ Failed # {} /\ Succeeded # {}) =>
        /\ trainOut.status = "returned"
        /\ \A name \in Failed : name \in TrainedNames \cup ScoredNames

\* C10 (as claimed): the train/test split is stratified on the labels exactly
\* when every class present in y has at least 2 members; otherwise an
\* unstratified split is performed and a warning that stratification was
\* skipped is emitted.  In both cases the split is 70/30 and the train and
\* test rows partition the input rows.  (Stated for inputs of at least 2 rows,
\* the fewest that can be split.)
C10_StratifiedIffEveryClassHasTwo ==
    (TrainDone /\ Len(trainIn.y) >= 2) =>
        LET n == Len(trainIn.y)
            everyClassHasTwo ==
                \A c \in Classes :
                    Cardinality({i \in 1..n : trainIn.y[i] = c}) # 1
            n_test == Cardinality(trainOut.split.test)
        IN /\ trainOut.error # "split"
           /\ trainOut.stratified <=> everyClassHasTwo
           /\ ~everyClassHasTwo => "stratify_skipped" \in trainOut.warnings
           /\ 10 * n_test >= 3 * n /\ 10 * (n_test - 1) < 3 * n
           /\ trainOut.split.train \cup trainOut.split.test = {i - 1 : i \in 1..n}
           /\ trainOut.split.train \cap trainOut.split.test = {}

\* C23: after a training call returns, the models with a trained model are
\* the models with an evaluation report, all among the three families; a
\* report holds train accuracy, cross-validation mean and standard deviation
\* and test accuracy; a model whose cross-validation or scoring failed has
\* neither a trained model nor a report
C23_TrainedIffScored ==
    (TrainDone /\ trainOut.status = "returned") =>
        /\ TrainedNames = ScoredNames
        /\ TrainedNames \subseteq ModelSet
        /\ \A k \in 1..Len(trainOut.model_scores) :
               DOMAIN trainOut.model_scores[k].report = {"train_score", "cv_mean", "cv_std", "test_score"}
        /\ \A name \in ModelSet :
               trainOut.stages[name] \in {"cv", "score", "train_score"}
                   => name \notin TrainedNames \cup ScoredNames

----------------------------------------------------------------------------
(* Specification of feature assembly: a frame is drawn, its feature matrix  *)
(* is assembled and handed to train_ensemble_models                         *)

\* the frames of the page: every cell 1 except up to two cells, which hold any
\* float a loaded column can hold
DirtyFrames(n) ==
    LET Cellsites == (1..n) \X (1..Len(numeric_cols))
    IN {[p \in 1..n |-> [k \in 1..Len(numeric_cols) |->
            IF <<p, k>> = a THEN ca ELSE IF <<p, k>> = b THEN cb ELSE Num(1)]] :
        a \in Cellsites, b \in Cellsites, ca \in FrameCells, cb \in FrameCells}

\* the frames of the standalone application are generated: integer scores
GeneratedFrame(n) == [p \in 1..n |-> [k \in 1..Len(numeric_cols) |-> Num(1)]]

AssembleArgs ==
    {[fn |-> "assemble", variant |-> "page", treesAcceptNaN |-> t, numeric |-> f,
      n_words |-> w, y |-> create_sample_data_for_ml(MaxAssembleRows).labels] :
        t \in BOOLEAN, f \in DirtyFrames(MaxAssembleRows), w \in 1..2}
    \cup
    {[fn |-> "assemble", variant |-> "standalone", treesAcceptNaN |-> t,
      numeric |-> GeneratedFrame(2 * MaxAssembleRows),
      n_words |-> w, y |-> create_sample_data_for_ml(2 * MaxAssembleRows).labels] :
        t \in BOOLEAN, w \in 1..2}

InitAssemble ==
    /\ LoaderIdle
    /\ TrainerIdle
    /\ SessionIdle
    /\ args \in AssembleArgs
    /\ result = NoCall

AssembleAndTrain ==
    /\ result = NoCall
    /\ \E X \in {Assemble(args.variant, args.numeric, args.n_words)} :
           \E out \in TrainOnMatrix(args.variant, X.rows, args.y, args.treesAcceptNaN) :
               result' = [fn |-> "assemble", X |-> X, train |-> out]
    /\ UNCHANGED <<args, loaderVars, trainerVars, sessionVars>>

NextAssemble == AssembleAndTrain

SpecAssemble == InitAssemble /\ [][NextAssemble]_vars

Assembled == result.fn = "assemble"

\* the rows a model that trained was fitted on
FittedRows == IF result.train.trained_models = <<>> THEN {} ELSE result.train.split.train

\* C11: every matrix a model was fitted on has the numeric columns followed by
\* the vocabulary columns and holds only finite floats, whatever the numeric
\* columns of the frame held
C11_FittedMatrixIsFinite ==
    Assembled =>
        /\ Len(result.X.columns) = Len(numeric_cols) + args.n_words
        /\ \A p \in FittedRows :
               /\ Len(result.X.rows[p + 1]) = Len(result.X.columns)
               /\ \A k \in 1..Len(result.X.rows[p + 1]) : IsFinite(result.X.rows[p + 1][k])

\* a model was fitted on rows of which one held a missing value in the frame
C11_Witness ==
    /\ Assembled
    /\ \E p \in FittedRows : \E k \in 1..Len(numeric_cols) : IsNull(args.numeric[p + 1][k])

\* C12: when the assembled matrix holds a missing value, training raises, no
\* model is fitted, and the matrix is not patched behind a warning
C12_MissingValueRaises ==
    (Assembled /\ result.X.had_null) =>
        /\ result.train.status = "raised"
        /\ result.train.trained_models = <<>>
        /\ "missing_values_filled" \notin result.X.shown

\* the sum and the number of the non-missing cells of a column
SumOf(column) ==
    LET F[k \in 0..Len(column)] ==
            IF k = 0 THEN 0
            ELSE F[k - 1] + (IF IsNull(column[k]) THEN 0 ELSE column[k].v)
    IN F[Len(column)]

CountOf(column) == Cardinality({k \in 1..Len(column) : ~IsNull(column[k])})

\* C13: a missing cell of a numeric column is replaced, in the matrix handed
\* to training, by the mean of the non-missing cells of its column
C13_ImputedWithColumnMean ==
    (Assembled /\ args.variant = "page") =>
        \A p \in 1..Len(args.numeric) : \A k \in 1..Len(numeric_cols) :
            LET column == ColumnOf(args.numeric, k)
            IN (/\ IsNull(args.numeric[p][k])
                /\ CountOf(column) > 0
                /\ \A q \in 1..Len(column) : column[q] # Inf)
               => /\ IsFinite(result.X.rows[p][k])
                  /\ result.X.rows[p][k].v * CountOf(column) = SumOf(column)

----------------------------------------------------------------------------
(* Specification of text feature extraction: a column of comments is drawn  *)
(* and handed to preprocess_text_features                                   *)

ExtractComments == {<<>>, <<"common">>, <<"w1">>, <<"common", "w1", "w2">>}

InitExtract ==
    /\ LoaderIdle
    /\ TrainerIdle
    /\ SessionIdle
    /\ args \in [fn : {"extract"}, variant : Variants, throws : BOOLEAN,
                 comments : SeqsUpTo(ExtractComments, MaxExtractRows)]
    /\ result = NoCall

Extract ==
    /\ result = NoCall
    /\ \E ext \in {Extractor(args.variant, args.comments, args.throws)} :
           result' = [fn |-> "extract", ext |-> ext, handler |-> AfterExtraction(ext)]
    /\ UNCHANGED <<args, loaderVars, trainerVars, sessionVars>>

NextExtract == Extract

SpecExtract == InitExtract /\ [][NextExtract]_vars

Extracted == result.fn = "extract"

\* the terms the comments of the call hold
TermsFound ==
    UNION {TermsOf(args.variant, custom_tokenizer(args.comments[i])) : i \in 1..Len(args.comments)}

AllEmpty == Len(args.comments) > 0 /\ \A i \in 1..Len(args.comments) : args.comments[i] = <<>>

\* C15: for a column of empty comments the extractor returns no text column
\* without raising, and the handler goes on to assemble the matrix from the
\* numeric columns and train on it
C15_EmptyCommentsStillTrain ==
    (Extracted /\ AllEmpty /\ ~args.throws) =>
        /\ ~result.ext.raised
        /\ result.ext.columns = <<>>
        /\ result.handler = "assemble_and_train"

\* C28: on every path, the one for no comment at all included, the extractor
\* returns a pair (feature table, fitted extractor or none), and the handler's
\* unpacking of the two values does not fail
C28_AlwaysAPair ==
    Extracted =>
        /\ result.ext.arity = 2
        /\ result.handler # "unpack_error"
        /\ (result.ext.vectorizer # None) => result.ext.vectorizer.fitted

----------------------------------------------------------------------------
(* Specification of the ensemble prediction: the outcome of each trained    *)
(* model's prediction calls is drawn, then the vote and the confidence are  *)
(* computed                                                                 *)

TrainedSequences ==
    {SelectSeq(ModelNames, LAMBDA name : name \in chosen) : chosen \in SUBSET ModelSet \ {{}}}

InitVote ==
    /\ LoaderIdle
    /\ TrainerIdle
    /\ SessionIdle
    /\ \E names \in TrainedSequences :
           args \in [fn : {"predict"}, names : {names}, calls : [Range(names) -> CallOutcomes]]
    /\ result = NoCall

Vote ==
    /\ result = NoCall
    /\ \E shown \in {EnsemblePrediction(args.names, args.calls)} :
           result' = [fn |-> "predict", shown |-> shown]
    /\ UNCHANGED <<args, loaderVars, trainerVars, sessionVars>>

NextVote == Vote

SpecVote == InitVote /\ [][NextVote]_vars

Voted == result.fn = "predict"

\* the models whose prediction calls returned, and those that predicted label l
Returned == {name \in Range(args.names) : ~args.calls[name].failed}

VotesFor(l) == {name \in Returned : PredictedClass(args.calls[name]) = l}

\* C16: a label predicted by more than half of the models that returned a
\* prediction is the ensemble label; a model whose call failed has no vote (a
\* warning names it); when no model returned, an error is shown and no label
C16_MajorityOfReturnedModels ==
    Voted =>
        /\ \A l \in Classes :
               2 * Cardinality(VotesFor(l)) > Cardinality(Returned) => result.shown.labels = {l}
        /\ result.shown.warned = Range(args.names) \ Returned
        /\ Returned = {} => result.shown.kind = "all_predictions_failed" /\ result.shown.labels = {}
        /\ Returned # {} =>
               /\ result.shown.kind = "result"
               /\ \E l \in Classes : result.shown.labels = {l} /\ VotesFor(l) # {}

\* three trained models: the first fails, the two that return agree on 1
C16_Witness ==
    /\ Voted
    /\ Len(args.names) = 3
    /\ args.calls["Decision Tree"].failed
    /\ Cardinality(VotesFor(1)) = 2
    /\ result.shown.labels = {1}

\* the label of the earliest model, in training order, that returned
FirstReturnedLabel ==
    PredictedClass(args.calls[SelectSeq(args.names, LAMBDA name : name \in Returned)[1]])

\* C29: the ensemble label is a function of the ordered votes of the models
\* that returned: the label with more votes, and when the votes split evenly
\* the label of the earliest model in training order
C29_EvenSplitFollowsEarliest ==
    (Voted /\ Returned # {}) =>
        /\ \A l \in Classes :
               Cardinality(VotesFor(l)) > Cardinality(VotesFor(1 - l)) => result.shown.labels = {l}
        /\ Cardinality(VotesFor(0)) = Cardinality(VotesFor(1)) => result.shown.labels = {FirstReturnedLabel}

\* the first model fails, Random Forest votes 1 and Gradient Boosting 0
C29_Witness ==
    /\ Voted
    /\ Len(args.names) = 3
    /\ args.calls["Decision Tree"].failed
    /\ VotesFor(1) = {"Random Forest"}
    /\ VotesFor(0) = {"Gradient Boosting"}
    /\ result.shown.labels = {1}

\* the models that returned a probability vector of two or more classes
Wide == {name \in Returned : Len(args.calls[name].prob) >= 2}

SpreadSum ==
    LET F[k \in 0..Len(args.names)] ==
            IF k = 0 THEN 0
            ELSE F[k - 1] + (IF args.names[k] \in Wide
                             THEN LET prob == args.calls[args.names[k]].prob
                                  IN IF prob[1] >= prob[2] THEN prob[1] - prob[2] ELSE prob[2] - prob[1]
                             ELSE 0)
    IN F[Len(args.names)]

\* C17: the confidence is the mean, over the models that returned two or more
\* class probabilities, of largest minus smallest probability; it lies in
\* [0, 1]; it is high above 0.6, medium above 0.3 up to 0.6, low otherwise
C17_ConfidenceIsMeanSpread ==
    (Voted /\ result.shown.confidence.shown) =>
        LET c == result.shown.confidence
        IN /\ c.count = Cardinality(Wide)
           /\ c.count > 0
           /\ c.sum = SpreadSum
           /\ 0 <= c.sum /\ c.sum <= ProbSteps * c.count
           /\ c.level = "high" <=> 10 * c.sum > 6 * ProbSteps * c.count
           /\ c.level = "medium" <=> (10 * c.sum > 3 * ProbSteps * c.count /\ 10 * c.sum <= 6 * ProbSteps * c.count)
           /\ c.level = "low" <=> 10 * c.sum <= 3 * ProbSteps * c.count

\* two models with two classes and one fitted on a single class; the mean
\* spread falls in the medium band
C17_Witness ==
    /\ Voted
    /\ result.shown.confidence.shown
    /\ Cardinality(Wide) = 2
    /\ Cardinality(Returned) = 3
    /\ result.shown.confidence.level = "medium"

----------------------------------------------------------------------------
(* Specification of the feature ranking: the importances of a fitted model  *)
(* are drawn, then ranked for the chart or the table                        *)

RankVocabularies == {<<"common">>, <<"common", "w1">>}

RankFeatureNames ==
    {[k \in 1..Len(numeric_cols) |-> NumericColumn(numeric_cols[k])]
         \o [k \in 1..Len(vocabulary) |-> WordColumn(vocabulary[k])] :
     vocabulary \in RankVocabularies}

RankArgs ==
    UNION {[fn : {"rank"}, view : {"chart", "standalone_chart"}, feature_names : {names},
            importances : [1..Len(names) -> 0..MaxImportance], top_n : 1..MaxTopN]
           \cup
           [fn : {"rank"}, view : {"table"}, feature_names : {names},
            importances : [1..Len(names) -> 0..MaxImportance], top_n : {TableTop}] :
           names \in RankFeatureNames}

InitRank ==
    /\ LoaderIdle
    /\ TrainerIdle
    /\ SessionIdle
    /\ args \in RankArgs
    /\ result = NoCall

Rank ==
    /\ result = NoCall
    /\ \E ranking \in {Ranking(args.view, args.feature_names, args.importances, args.top_n)} :
           result' = [fn |-> "rank", ranking |-> ranking]
    /\ UNCHANGED <<args, loaderVars, trainerVars, sessionVars>>

NextRank == Rank

SpecRank == InitRank /\ [][NextRank]_vars

Ranked == result.fn = "rank"

\* C18: a ranking lists at most top_n features, by importance descending, and
\* two features of equal importance in the order of their columns
C18_RankingDescendingTiesInColumnOrder ==
    Ranked =>
        /\ Len(result.ranking) <= args.top_n
        /\ \A i, j \in 1..Len(result.ranking) :
               i < j => /\ result.ranking[i].importance >= result.ranking[j].importance
                        /\ result.ranking[i].importance = result.ranking[j].importance
                               => result.ranking[i].column < result.ranking[j].column

----------------------------------------------------------------------------
(* Specification of tokenization: the installed analyzers and a text are    *)
(* drawn, the module starts up and japanese_tokenizer is called             *)

Texts ==
    {[kind |-> "None", chars |-> <<>>], [kind |-> "NaN", chars |-> <<>>]}
    \cup {[kind |-> "str", chars |-> chars] : chars \in SeqsUpTo(Chars, MaxTextLen)}

InitTokenize ==
    /\ LoaderIdle
    /\ TrainerIdle
    /\ SessionIdle
    /\ args \in [fn : {"tokenize"}, variant : Variants, janome : BOOLEAN, mecab : BOOLEAN,
                 analyzerRaises : BOOLEAN, regexRaises : BOOLEAN, text : Texts]
    /\ result = NoCall

Tokenize ==
    /\ result = NoCall
    /\ \E type \in {TokenizerType(args.variant, args.janome, args.mecab)} :
           result' = [fn |-> "tokenize", TOKENIZER_TYPE |-> type, raised |-> FALSE,
                      tokens |-> japanese_tokenizer(args.variant, type, args.text,
                                                    args.analyzerRaises, args.regexRaises)]
    /\ UNCHANGED <<args, loaderVars, trainerVars, sessionVars>>

NextTokenize == Tokenize

SpecTokenize == InitTokenize /\ [][NextTokenize]_vars

Tokenized == result.fn = "tokenize"

Blank == \A k \in 1..Len(args.text.chars) : args.text.chars[k] = " "

\* C19: for an argument that is empty, None, NaN or all blanks,
\* japanese_tokenizer returns the empty sequence and raises nothing, whatever
\* the tokenizer selected
C19_NoTokensForEmptyInput ==
    (Tokenized /\ (args.text.kind # "str" \/ Blank)) =>
        /\ ~result.raised
        /\ result.tokens = <<>>

\* a text of two blanks given to the morphological analyzer's variant
C19_Witness ==
    /\ Tokenized
    /\ args.text = [kind |-> "str", chars |-> <<" ", " ">>]
    /\ result.TOKENIZER_TYPE = "janome"
    /\ result.tokens = <<>>

\* the text holds a run of word characters that is not all digits
HasWordRun ==
    /\ args.text.kind = "str"
    /\ \E i \in 1..Len(args.text.chars) : args.text.chars[i] = "a"

\* the tokens of the regex splitter for the text of the call
SplitterTokens ==
    SelectSeq(Runs(Strip(args.text.chars), WordClass),
              LAMBDA run : WordClass[run[1]] = "word" /\ ~isdigit(run))

\* C20: start-up selects the primary analyzer if available, else the
\* secondary one if available, else the regex splitter; a text with a run of
\* characters that is not all digits gets at least one token; when the
\* analyzer raises, the tokens are those of the regex splitter
C20_FallbackChain ==
    Tokenized =>
        /\ ~result.raised
        /\ result.TOKENIZER_TYPE = (IF args.janome THEN "janome"
                                    ELSE IF args.mecab THEN "mecab" ELSE "simple")
        /\ HasWordRun => result.tokens # <<>>
        /\ (HasWordRun /\ args.analyzerRaises /\ result.TOKENIZER_TYPE # "simple")
               => result.tokens = SplitterTokens

\* C21: no token japanese_tokenizer returns is purely numeric, whichever path
\* it returns by: the analyzer, the regex splitter or an exception fallback
C21_NoNumericToken ==
    Tokenized => \A k \in 1..Len(result.tokens) : ~isdigit(result.tokens[k])

----------------------------------------------------------------------------
(* Specification of a run of the page on a spreadsheet that holds any of    *)
(* the known numeric columns                                                *)

ColumnTables ==
    UNION {IF "overall_satisfaction" \in present
           THEN {[present |-> present, n |-> Len(sat), sat |-> sat] :
                    sat \in SeqsUpTo(RawCells, MaxColumnRows) \ {<<>>}}
           ELSE {[present |-> present, n |-> n, sat |-> <<>>] : n \in 1..MaxColumnRows} :
           present \in SUBSET KnownColumns}

InitColumns ==
    /\ LoaderIdle
    /\ TrainerIdle
    /\ SessionIdle
    /\ args \in [fn : {"page"}, table : ColumnTables, naLast : BOOLEAN,
                 clicked : BOOLEAN, n_words : 0..1]
    /\ result = NoCall

RunPage ==
    /\ result = NoCall
    /\ \E loadResult \in {load_real_data_for_analysis(LoaderTable(args.table), args.naLast, 0)} :
           result' = [fn |-> "page",
                      run |-> PageRun(args.table, loadResult, args.clicked, args.n_words)]
    /\ UNCHANGED <<args, loaderVars, trainerVars, sessionVars>>

NextColumns == RunPage

SpecColumns == InitColumns /\ [][NextColumns]_vars

PageRan == result.fn = "page"

\* C22: when the spreadsheet lacks some of the known numeric columns, the
\* loader returns its rows, the summary statistics are shown and the train
\* button's handler assembles the features: none of them ends with a
\* missing-column error
C22_MissingColumnsDegrade ==
    (PageRan /\ args.table.present # KnownColumns) =>
        /\ result.run.loaded.errors = {}
        /\ result.run.summary = "shown"
        /\ (args.clicked /\ args.n_words > 0) => result.run.assembly = "assembled"

----------------------------------------------------------------------------
(* Specification of the cleaning of a comment: a comment is drawn and       *)
(* tokenized as the fit and as the prediction tab tokenize it               *)

InitClean ==
    /\ LoaderIdle
    /\ TrainerIdle
    /\ SessionIdle
    /\ args \in [fn : {"clean"}, janome : BOOLEAN, mecab : BOOLEAN,
                 comment : {chars \in SeqsUpTo(Chars, MaxTextLen) : Strip(chars) # <<>>}]
    /\ result = NoCall

Clean ==
    /\ result = NoCall
    /\ \E type \in {TokenizerType("page", args.janome, args.mecab)} :
           result' = [fn |-> "clean",
                      training |-> TrainingTokens(type, args.comment),
                      prediction |-> PredictionTokens(type, args.comment)]
    /\ UNCHANGED <<args, loaderVars, trainerVars, sessionVars>>

NextClean == Clean

SpecClean == InitClean /\ [][NextClean]_vars

Cleaned == result.fn = "clean"

\* C24: the prediction tab derives the text features of a comment as training
\* derived them: after its cleaning the vectorizer counts the same tokens for
\* the comment as it counted when it was fitted
C24_SameTokensAsTraining ==
    Cleaned => result.prediction = result.training

----------------------------------------------------------------------------
(* Specification of the feature filter: a column, its word and its          *)
(* importance are drawn and the filter of the ranking decides on it         *)

Words ==
    {[chars |-> chars, listed |-> FALSE] : chars \in SeqsUpTo(WordChars, MaxWordLen)}
    \cup {[chars |-> chars, listed |-> TRUE] : chars \in ListedShapes}

InitFilter ==
    /\ LoaderIdle
    /\ TrainerIdle
    /\ SessionIdle
    /\ args \in [fn : {"filter"}, prefix : {"", "word_"}, word : Words,
                 importance : 0..MaxImportance]
    /\ result = NoCall

Filter ==
    /\ result = NoCall
    /\ result' = [fn |-> "filter",
                  passes |-> filter_meaningful_words(args.word),
                  kept |-> KeepsFeature(args.prefix, args.word, args.importance)]
    /\ UNCHANGED <<args, loaderVars, trainerVars, sessionVars>>

NextFilter == Filter

SpecFilter == InitFilter /\ [][NextFilter]_vars

Filtered == result.fn = "filter"

\* the word is made of digits alone
PurelyNumeric ==
    /\ args.word.chars # <<>>
    /\ \A k \in 1..Len(args.word.chars) : args.word.chars[k] \in {"9", "wide9"}

\* the word has one or two characters, all hiragana or all katakana
ShortKana ==
    /\ Len(args.word.chars) \in 1..2
    /\ \/ \A k \in 1..Len(args.word.chars) : args.word.chars[k] \in {"ki", "de", "small"}
       \/ \A k \in 1..Len(args.word.chars) : args.word.chars[k] \in {"ka", "bar"}

\* C26: a column without the word_ prefix is never filtered out; a word_
\* column is kept only if its word passes filter_meaningful_words and its
\* importance exceeds 0.001; filter_meaningful_words rejects every purely
\* numeric word and every hiragana-only or katakana-only word of one or two
\* characters, and accepts every word of its list of meaningful words
C26_FilterOfTheRanking ==
    Filtered =>
        /\ args.prefix # "word_" => result.kept
        /\ (args.prefix = "word_" /\ result.kept) => (result.passes /\ args.importance > 1)
        /\ PurelyNumeric => ~result.passes
        /\ ShortKana => ~result.passes
        /\ args.word.listed => result.passes

----------------------------------------------------------------------------
(* Specification of the training artifacts of a session, in either          *)
(* application: the train button is clicked again and again                 *)

\* the frames of the standalone application: generated rows, the first fifth
\* labelled 1, one comment for the labelled rows and one for the others
StandaloneFrames ==
    {[i \in 1..(2 * MaxSessionRows) |->
         [comment |-> IF create_sample_data_for_ml(2 * MaxSessionRows).labels[i] = 1 THEN low ELSE high,
          is_low_satisfaction |-> create_sample_data_for_ml(2 * MaxSessionRows).labels[i]]] :
     low \in Comments, high \in Comments}

InitArtifacts ==
    /\ LoaderIdle
    /\ TrainerIdle
    /\ args \in [fn : {"session"}, variant : Variants]
    /\ df \in (IF args.variant = "page" THEN SessionFrames ELSE StandaloneFrames)
    /\ session_state = NoKeys
    /\ display = NotRun
    /\ result = NoCall

\* a run of the script with the train button clicked; result keeps what the
\* run did: the session it started from, whether its training succeeded (at
\* least one model trained), whether the importance tab ranked, and whether
\* a training had succeeded in the session before the tab was rendered
ClickTrainButton ==
    \E after \in TrainButtonOf(args.variant, session_state, df) :
        /\ session_state' = after.session
        /\ result' = [fn |-> "session",
                      before |-> session_state,
                      succeeded |-> after.trained # <<>>,
                      ranked |-> after.goes_on /\ ImportanceTabRanks(after.session),
                      ever_succeeded |-> \/ after.trained # <<>>
                                         \/ result # NoCall /\ result.ever_succeeded]
        /\ UNCHANGED <<args, df, display, loaderVars, trainerVars>>

NextArtifacts == ClickTrainButton

SpecArtifacts == InitArtifacts /\ [][NextArtifacts]_vars

Clicked == result.fn = "session"

\* the columns a fitted vectorizer gives, behind the numeric columns
ColumnsOfRun(vectorizer) ==
    [k \in 1..Len(numeric_cols) |-> NumericColumn(numeric_cols[k])]
        \o [k \in 1..Len(vectorizer.vocabulary) |-> WordColumn(vectorizer.vocabulary[k])]

\* C27: the artifacts of a session are written all or nothing: when the
\* trained models are in the session, so are the scores, the feature names and
\* the fitted extractor of the same run; a click whose training failed leaves
\* the session as it was; the importance tab ranks nothing before a training
\* has succeeded
C27_ArtifactsAllOrNothing ==
    /\ Has(session_state, "ml_models") =>
           /\ Has(session_state, "ml_scores")
           /\ Has(session_state, "ml_feature_names")
           /\ Has(session_state, "ml_vectorizer")
           /\ session_state["ml_vectorizer"].fitted
           /\ session_state["ml_feature_names"] = ColumnsOfRun(session_state["ml_vectorizer"])
           /\ \A k \in 1..Len(session_state["ml_models"]) :
                  session_state["ml_models"][k].feature_names_in = session_state["ml_feature_names"]
    /\ (Clicked /\ ~result.succeeded) => session_state = result.before
    /\ (Clicked /\ result.ranked) => result.ever_succeeded

----------------------------------------------------------------------------
(* parse_japanese_datetime of the dashboard (employee_survey_dashboard.py). *)
(* A string is a sequence of characters: the digits, blank, comma, colon,   *)
(* "gatsu" (the month sign), "go" "zen" (before noon), "go" "ato" (after    *)
(* noon); an English month name put in by the replacement is one character  *)
(* of the word class.                                                       *)

DigitChars == <<"0", "1", "2", "3", "4", "5", "6", "7", "8", "9">>

\* line 452
month_names == <<"Jan", "Feb", "Mar", "Apr", "May", "Jun", "Jul", "Aug", "Sep", "Oct", "Nov", "Dec">>

DigitSet == Range(DigitChars)

\* \w of a str pattern: digits, letters, ideographs
WordSet == DigitSet \cup Range(month_names) \cup {"gatsu", "go", "zen", "ato"}

SpaceSet == {" "}

Gozen == <<"go", "zen">>

Gogo == <<"go", "ato">>

\* str(n), padded with zeros to the width
Decimal(n, width) ==
    LET len == IF n >= 1000 THEN 4 ELSE IF n >= 100 THEN 3 ELSE IF n >= 10 THEN 2 ELSE 1
        w == IF width > len THEN width ELSE len
    IN [k \in 1..w |-> DigitChars[((n \div (10 ^ (w - k))) % 10) + 1]]

\* int(digits)
RECURSIVE int(_)
int(digits) ==
    IF digits = <<>> THEN 0
    ELSE 10 * int(SubSeq(digits, 1, Len(digits) - 1))
         + (CHOOSE d \in 0..9 : DigitChars[d + 1] = digits[Len(digits)])

\* sub in s
Contains(s, sub) ==
    \E i \in 1..(Len(s) - Len(sub) + 1) : SubSeq(s, i, i + Len(sub) - 1) = sub

\* s.replace(old, new): every occurrence, from the left, without overlap
RECURSIVE replace(_, _, _)
replace(s, old, new) ==
    IF Len(s) < Len(old) THEN s
    ELSE IF SubSeq(s, 1, Len(old)) = old
    THEN new \o replace(SubSeq(s, Len(old) + 1, Len(s)), old, new)
    ELSE <<s[1]>> \o replace(Tail(s), old, new)

\* lines 427-431: the keys of month_map, in the order of the literal
month_map_key(m) == Decimal(m, 1) \o <<"gatsu">>

\* lines 440-444: the first key of month_map found in the string is replaced
\* by its English name, and the loop ends
ReplaceMonth(s) ==
    LET found == {m \in 1..12 : Contains(s, month_map_key(m))}
    IN IF found = {} THEN s
       ELSE replace(s, month_map_key(CHOOSE m \in found : \A o \in found : m <= o),
                    <<month_names[CHOOSE m \in found : \A o \in found : m <= o]>>)

\* the last position of the run of characters of a class that begins at i
\* (i - 1 when there is none)
RunEnd(s, i, class) ==
    CHOOSE j \in (i - 1)..Len(s) :
        /\ \A k \in i..j : s[k] \in class
        /\ j = Len(s) \/ s[j + 1] \notin class

Is(s, i, c) == i <= Len(s) /\ s[i] = c

\* lines 447-448: the groups of (\w+)\s+(\d+),\s+(\d+)\s+(\d+):(\d+):(\d+)
\* matched from position i, as the ends of the runs; no group when a run is
\* empty or a separator is missing
GroupsAt(s, i) ==
    LET w == RunEnd(s, i, WordSet)
        s1 == RunEnd(s, w + 1, SpaceSet)
        day == RunEnd(s, s1 + 1, DigitSet)
        s2 == RunEnd(s, day + 2, SpaceSet)
        year == RunEnd(s, s2 + 1, DigitSet)
        s3 == RunEnd(s, year + 1, SpaceSet)
        hour == RunEnd(s, s3 + 1, DigitSet)
        minute == RunEnd(s, hour + 2, DigitSet)
        second == RunEnd(s, minute + 2, DigitSet)
    IN IF /\ w >= i /\ s1 > w /\ day > s1 /\ Is(s, day + 1, ",")
          /\ s2 > day + 1 /\ year > s2 /\ s3 > year
          /\ hour > s3 /\ Is(s, hour + 1, ":")
          /\ minute > hour + 1 /\ Is(s, minute + 1, ":")
          /\ second > minute + 1
       THEN <<SubSeq(s, i, w), SubSeq(s, s1 + 1, day), SubSeq(s, s2 + 1, year),
              SubSeq(s, s3 + 1, hour), SubSeq(s, hour + 2, minute), SubSeq(s, minute + 2, second)>>
       ELSE <<>>

\* re.search: the match at the leftmost position that has one
re_search(s) ==
    LET starts == {i \in 1..Len(s) : GroupsAt(s, i) # <<>>}
    IN IF starts = {} THEN <<>>
       ELSE GroupsAt(s, CHOOSE i \in starts : \A j \in starts : i <= j)

DaysInMonth(year, month) ==
    IF month = 2
    THEN (IF year % 4 = 0 /\ (year % 100 # 0 \/ year % 400 = 0) THEN 29 ELSE 28)
    ELSE IF month \in {4, 6, 9, 11} THEN 30 ELSE 31

\* datetime(year, month, day, hour, minute, second): the six fields, or
\* ValueError (no field) for a value out of range
datetime(year, month, day, hour, minute, second) ==
    IF /\ year \in 1..9999 /\ month \in 1..12 /\ day \in 1..DaysInMonth(year, month)
       /\ hour \in 0..23 /\ minute \in 0..59 /\ second \in 0..59
    THEN <<year, month, day, hour, minute, second>>
    ELSE <<>>

\* lines 456-462
HourOf(hour_int, is_pm) ==
    IF is_pm /\ hour_int # 12 THEN hour_int + 12
    ELSE IF ~is_pm /\ hour_int = 12 THEN 0
    ELSE hour_int

\* lines 449-466, with the string after the replacements: the empty sequence
\* stands for None (no match, or an exception caught at line 468)
ParseReplaced(s, is_pm) ==
    LET match == re_search(s)
    IN IF match = <<>> THEN <<>>
       ELSE IF ~\E m \in 1..12 : match[1] = <<month_names[m]>> THEN <<>>
       ELSE datetime(int(match[3]),
                     CHOOSE m \in 1..12 : match[1] = <<month_names[m]>>,
                     int(match[2]),
                     HourOf(int(match[4]), is_pm),
                     int(match[5]), int(match[6]))

parse_japanese_datetime(datetime_str) ==
    ParseReplaced(ReplaceMonth(Strip(replace(replace(Strip(datetime_str), Gozen, <<>>), Gogo, <<>>))),
                  Contains(Strip(datetime_str), Gogo))

----------------------------------------------------------------------------
(* Specification of the timestamp parser: a timestamp is written out from   *)
(* its fields and handed to parse_japanese_datetime                         *)

\* '<M>gatsu <DD>, <YYYY> <hh>:<mm>:<ss> gozen|gogo'; the forms that are not
\* well-formed lack the comma or the half of the day
Written(f) ==
    Decimal(f.month, 1) \o <<"gatsu", " ">> \o Decimal(f.day, 2)
        \o (IF f.form = "no_comma" THEN <<" ">> ELSE <<",", " ">>)
        \o Decimal(f.year, 4) \o <<" ">>
        \o Decimal(f.hour, 2) \o <<":">> \o Decimal(f.minute, 2) \o <<":">> \o Decimal(f.second, 2)
        \o (IF f.form = "no_half" THEN <<>> ELSE <<" ">> \o (IF f.pm THEN Gogo ELSE Gozen))

Timestamps ==
    [fn : {"parse"}, form : {"ok", "no_comma", "no_half"},
     month : 0..13, day : {1, 8, 29, 31}, year : {2024, 2025},
     hour : 0..13, minute : {0, 39}, second : {24}, pm : BOOLEAN]

InitParse ==
    /\ LoaderIdle
    /\ TrainerIdle
    /\ SessionIdle
    /\ args \in Timestamps
    /\ result = NoCall

Parse ==
    /\ result = NoCall
    /\ \E value \in {parse_japanese_datetime(Written(args))} :
           result' = [fn |-> "parse", value |-> value]
    /\ UNCHANGED <<args, loaderVars, trainerVars, sessionVars>>

NextParse == Parse

SpecParse == InitParse /\ [][NextParse]_vars

Parsed == result.fn = "parse"

\* a string of the form, of a date and a time of the 12-hour clock
WellFormed ==
    /\ args.form = "ok"
    /\ args.month \in 1..12
    /\ args.day \in 1..DaysInMonth(args.year, args.month)
    /\ args.hour \in 1..12

\* C30: every well-formed timestamp of the months 1 to 12 is converted into
\* the datetime of its month, day and year, with the hour of the 12-hour
\* clock mapped (before noon 12 to 0, after noon 12 to 12, another hour after
\* noon to hour + 12, another hour before noon unchanged); None is returned
\* only for strings that are not of the form
C30_WellFormedIsParsed ==
    (Parsed /\ WellFormed) =>
        result.value = <<args.year, args.month, args.day,
                         IF args.pm THEN (IF args.hour = 12 THEN 12 ELSE args.hour + 12)
                         ELSE (IF args.hour = 12 THEN 0 ELSE args.hour),
                         args.minute, args.second>>

====
